---- MODULE Spec2Model ----
(***************************************************************************)
(* Two-player Tic-Tac-Toe (src/src/main.py): the Board and Game objects    *)
(* and the event loop of Main.run, one action per event handler.           *)
(***************************************************************************)
EXTENDS Integers, Sequences, FiniteSets, TLC

\* ---------------------------------------------------------------- constants
WIDTH == 600
HEIGHT == 600
BOARD_ROWS == 3
BOARD_COLS == 3
SQUARE_SIZE == WIDTH \div BOARD_COLS

PLAYER_X == 1
PLAYER_O == 2
EMPTY == 0

\* range(BOARD_ROWS), range(BOARD_COLS)
Rows == 0 .. (BOARD_ROWS - 1)
Cols == 0 .. (BOARD_COLS - 1)

\* Pixel coordinates a click is drawn from: the first and the last pixel of
\* each third of the window, on either axis.
Pixels == {0, SQUARE_SIZE - 1, SQUARE_SIZE, 2 * SQUARE_SIZE - 1,
           2 * SQUARE_SIZE, WIDTH - 1}

\* Messages written to standard output by a handler ("" when none).
MSG_NONE == ""
MSG_RESTART == "Restarting game..."
MSG_DRAW == "It's a draw!"

VARIABLES
    game,        \* the Game object: board (squares, marked_squares),
                 \* current_player, game_over
    lastEvent,   \* the event handled last and the path its handler took
    moves,       \* calls of make_move since Game() or the last restart()
    running,     \* FALSE once the QUIT event has ended the process
    probe,       \* argument and result of a direct call of a Board query
    script       \* how far the clicks since Game() or the last restart()
                 \* have followed each replayed click sequence (-1: left it)

vars == <<game, lastEvent, moves, running, probe, script>>

\* ------------------------------------------------------------------- Board
\* Board.__init__
Board_init ==
    [squares |-> [r \in Rows |-> [c \in Cols |-> EMPTY]],
     marked_squares |-> 0]

\* mark_square that leaves an occupied square alone.
mark_square_Guarded(board, row, col, player) ==
    IF board.squares[row][col] = EMPTY
    THEN [squares |-> [board.squares EXCEPT ![row][col] = player],
          marked_squares |-> board.marked_squares + 1]
    ELSE board

\* mark_square that forgets to count the mark.
mark_square_NoCount(board, row, col, player) ==
    [squares |-> [board.squares EXCEPT ![row][col] = player],
     marked_squares |-> board.marked_squares]

\* Board.mark_square
mark_square(board, row, col, player) ==
    [squares |-> [board.squares EXCEPT ![row][col] = player],
     marked_squares |-> board.marked_squares + 1]

\* is_square_available that only protects the squares of PLAYER_X.
is_square_available_NotX(board, row, col) ==
    board.squares[row][col] # PLAYER_X

\* Board.is_square_available
is_square_available(board, row, col) ==
    board.squares[row][col] = EMPTY

\* is_board_full that is one mark early.
is_board_full_OffByOne(board) == board.marked_squares = 8

\* Board.is_board_full
is_board_full(board) == board.marked_squares = 9

\* Board.is_board_empty
is_board_empty(board) == board.marked_squares = 0

\* Board.get_empty_squares, the two nested loops from (row, col) onwards.
RECURSIVE empty_squares_from(_, _, _)
empty_squares_from(board, row, col) ==
    IF row >= BOARD_ROWS
    THEN << >>
    ELSE IF col >= BOARD_COLS
    THEN empty_squares_from(board, row + 1, 0)
    ELSE (IF is_square_available(board, row, col)
          THEN << <<row, col>> >>
          ELSE << >>) \o empty_squares_from(board, row, col + 1)

\* get_empty_squares with the loops nested the other way round.
get_empty_squares_ColumnMajor(board) ==
    LET t == [squares |-> [r \in Rows |-> [c \in Cols |-> board.squares[c][r]]],
              marked_squares |-> board.marked_squares]
        res == empty_squares_from(t, 0, 0)
    IN  [i \in 1 .. Len(res) |-> <<res[i][2], res[i][1]>>]

\* Board.get_empty_squares
get_empty_squares(board) == empty_squares_from(board, 0, 0)

\* check_win that leaves out the top-right to bottom-left diagonal.
check_win_NoAntiDiagonal(board, player) ==
    \/ \E col \in Cols : \A row \in Rows : board.squares[row][col] = player
    \/ \E row \in Rows : \A col \in Cols : board.squares[row][col] = player
    \/ \A i \in Rows : board.squares[i][i] = player

\* check_win that leaves out the horizontal lines.
check_win_NoRows(board, player) ==
    \/ \E col \in Cols : \A row \in Rows : board.squares[row][col] = player
    \/ \A i \in Rows : board.squares[i][i] = player
    \/ \A i \in Rows : board.squares[i][2 - i] = player

\* Board.check_win: columns first, then rows, then the two diagonals.
check_win(board, player) ==
    IF \E col \in Cols :
          /\ board.squares[0][col] = player
          /\ board.squares[1][col] = player
          /\ board.squares[2][col] = player
    THEN TRUE
    ELSE IF \E row \in Rows :
          /\ board.squares[row][0] = player
          /\ board.squares[row][1] = player
          /\ board.squares[row][2] = player
    THEN TRUE
    ELSE IF /\ board.squares[0][0] = player
            /\ board.squares[1][1] = player
            /\ board.squares[2][2] = player
    THEN TRUE
    ELSE IF /\ board.squares[0][2] = player
            /\ board.squares[1][1] = player
            /\ board.squares[2][0] = player
    THEN TRUE
    ELSE FALSE

\* -------------------------------------------------------------------- Game
\* Game.__init__ that lets PLAYER_O start.
Game_init_StartsO ==
    [board |-> Board_init,
     current_player |-> PLAYER_O,
     game_over |-> FALSE]

\* Game.__init__ (gamemode is set once and never read)
Game_init ==
    [board |-> Board_init,
     current_player |-> PLAYER_X,
     game_over |-> FALSE]

\* make_move that switches the player before it tests for a win.
make_move_SwitchFirst(g, row, col) ==
    LET b == mark_square(g.board, row, col, g.current_player)
        next == (g.current_player % 2) + 1
        over == IF check_win(b, next) THEN TRUE ELSE g.game_over
    IN  [board |-> b, current_player |-> next, game_over |-> over]

\* make_move that switches the player only when the move did not win.
make_move_KeepTurnWhenOver(g, row, col) ==
    LET b == mark_square(g.board, row, col, g.current_player)
        over == IF check_win(b, g.current_player) THEN TRUE ELSE g.game_over
    IN  [board |-> b,
         current_player |-> IF over THEN g.current_player
                            ELSE (g.current_player % 2) + 1,
         game_over |-> over]

\* make_move that never switches the player.
make_move_NoSwitch(g, row, col) ==
    LET b == mark_square(g.board, row, col, g.current_player)
        over == IF check_win(b, g.current_player) THEN TRUE ELSE g.game_over
    IN  [board |-> b, current_player |-> g.current_player, game_over |-> over]

\* Game.make_move: mark, test the mover's win, then switch player.
make_move(g, row, col) ==
    LET b == mark_square(g.board, row, col, g.current_player)
        over == IF check_win(b, g.current_player) THEN TRUE ELSE g.game_over
    IN  [board |-> b,
         current_player |-> (g.current_player % 2) + 1,
         game_over |-> over]

\* restart that does not reset the starting player.
restart_KeepPlayer(g) ==
    [board |-> Board_init,
     current_player |-> g.current_player,
     game_over |-> FALSE]

\* restart that keeps the old Board object.
restart_KeepBoard(g) ==
    [board |-> g.board,
     current_player |-> PLAYER_X,
     game_over |-> FALSE]

\* Game.restart
restart(g) ==
    [board |-> Board_init,
     current_player |-> PLAYER_X,
     game_over |-> FALSE]

\* -------------------------------------------------------------- event loop
\* Draw test that does not look at game_over.
draw_check_IgnoreWin(g) ==
    IF is_board_full(g.board)
    THEN [game |-> [g EXCEPT !.game_over = TRUE], printed |-> MSG_DRAW]
    ELSE [game |-> g, printed |-> MSG_NONE]

\* Main.run without the draw test.
draw_check_Skip(g) == [game |-> g, printed |-> MSG_NONE]

\* Main.run, the draw test that follows make_move.
draw_check(g) ==
    IF ~g.game_over /\ is_board_full(g.board)
    THEN [game |-> [g EXCEPT !.game_over = TRUE], printed |-> MSG_DRAW]
    ELSE [game |-> g, printed |-> MSG_NONE]

\* Row of a click, rounded to the nearest grid line instead of floored.
clicked_row_Rounded(mouseY) == (mouseY + SQUARE_SIZE \div 2) \div SQUARE_SIZE

\* Main.run, pixel to grid coordinate.
clicked_row(mouseY) == mouseY \div SQUARE_SIZE
clicked_col(mouseX) == mouseX \div SQUARE_SIZE

\* Click handler that does not test game_over.
mouse_button_down_NoOverCheck(g, mouseX, mouseY) ==
    LET row == clicked_row(mouseY)
        col == clicked_col(mouseX)
    IN  IF is_square_available(g.board, row, col)
        THEN draw_check(make_move(g, row, col))
        ELSE [game |-> g, printed |-> MSG_NONE]

\* Click handler that does not test whether the square is available.
mouse_button_down_NoAvailCheck(g, mouseX, mouseY) ==
    IF ~g.game_over
    THEN draw_check(make_move(g, clicked_row(mouseY), clicked_col(mouseX)))
    ELSE [game |-> g, printed |-> MSG_NONE]

\* Main.run, the MOUSEBUTTONDOWN branch.
mouse_button_down(g, mouseX, mouseY) ==
    IF ~g.game_over
    THEN LET row == clicked_row(mouseY)
             col == clicked_col(mouseX)
         IN  IF is_square_available(g.board, row, col)
             THEN draw_check(make_move(g, row, col))
             ELSE [game |-> g, printed |-> MSG_NONE]
    ELSE [game |-> g, printed |-> MSG_NONE]

NoEvent ==
    [type |-> "none", row |-> 0, col |-> 0, over |-> FALSE,
     avail |-> FALSE, printed |-> MSG_NONE]

NoProbe ==
    [squares |-> Board_init.squares, player |-> PLAYER_X,
     called |-> FALSE, result |-> FALSE]

\* Replayed click sequences, as (row, col) cells in click order.
SCRIPT_TOP_ROW == << <<0, 0>>, <<1, 1>>, <<0, 1>>, <<2, 2>>, <<0, 2>> >>
SCRIPT_FIXTURE ==
    << <<0, 0>>, <<0, 1>>, <<0, 2>>, <<1, 0>>, <<1, 1>>,
       <<2, 1>>, <<2, 0>>, <<2, 2>>, <<1, 2>> >>

ScriptStart == [top_row |-> 0, fixture |-> 0]

\* Position in seq after a click on (row, col) at position k.
Follow(k, seq, row, col) ==
    IF k >= 0 /\ k < Len(seq) /\ seq[k + 1] = <<row, col>> THEN k + 1 ELSE -1

ScriptAfterClick(row, col) ==
    [top_row |-> Follow(script.top_row, SCRIPT_TOP_ROW, row, col),
     fixture |-> Follow(script.fixture, SCRIPT_FIXTURE, row, col)]

Init ==
    /\ game = Game_init
    /\ lastEvent = NoEvent
    /\ moves = 0
    /\ running = TRUE
    /\ probe = NoProbe
    /\ script = ScriptStart

\* A MOUSEBUTTONDOWN event at pixel (mouseX, mouseY).
Click(mouseX, mouseY) ==
    /\ running
    /\ LET row == clicked_row(mouseY)
           col == clicked_col(mouseX)
           avail == is_square_available(game.board, row, col)
           res == mouse_button_down(game, mouseX, mouseY)
       IN  /\ game' = res.game
           /\ lastEvent' = [type |-> "click", row |-> row, col |-> col,
                            over |-> game.game_over, avail |-> avail,
                            printed |-> res.printed]
           /\ moves' = IF ~game.game_over /\ avail THEN moves + 1 ELSE moves
           /\ script' = ScriptAfterClick(row, col)
    /\ UNCHANGED <<running, probe>>

\* A KEYDOWN event with key K_r.
Restart ==
    /\ running
    /\ game' = restart(game)
    /\ lastEvent' = [type |-> "restart", row |-> 0, col |-> 0,
                     over |-> game.game_over, avail |-> FALSE,
                     printed |-> MSG_RESTART]
    /\ moves' = 0
    /\ script' = ScriptStart
    /\ UNCHANGED <<running, probe>>

\* A KEYDOWN event with any other key: no handler changes the game.
OtherKey ==
    /\ running
    /\ lastEvent' = [type |-> "key", row |-> 0, col |-> 0,
                     over |-> game.game_over, avail |-> FALSE,
                     printed |-> MSG_NONE]
    /\ UNCHANGED <<game, moves, running, probe, script>>

\* The QUIT event: pygame.quit() and sys.exit().
Quit ==
    /\ running
    /\ running' = FALSE
    /\ lastEvent' = [type |-> "quit", row |-> 0, col |-> 0,
                     over |-> game.game_over, avail |-> FALSE,
                     printed |-> MSG_NONE]
    /\ UNCHANGED <<game, moves, probe, script>>

Next ==
    \/ \E mouseX \in Pixels, mouseY \in Pixels : Click(mouseX, mouseY)
    \/ Restart
    \/ OtherKey
    \/ Quit

Spec == Init /\ [][Next]_vars

\* ------------------------------------------------- one game, played on
\* A click that Main.run turns into a move.
AcceptedClick ==
    \E mouseX \in Pixels, mouseY \in Pixels :
        /\ ~game.game_over
        /\ is_square_available(game.board, clicked_row(mouseY),
                               clicked_col(mouseX))
        /\ Click(mouseX, mouseY)

\* Events of one game: clicks and keys other than K_r, no restart, no quit.
NextPlay ==
    \/ \E mouseX \in Pixels, mouseY \in Pixels : Click(mouseX, mouseY)
    \/ OtherKey

\* The players keep clicking empty cells for as long as there is one to take.
SpecPlay == Init /\ [][NextPlay]_vars /\ WF_vars(AcceptedClick)

\* ------------------------------------------- direct calls of Board queries
\* Every 3x3 grid over {EMPTY, PLAYER_X, PLAYER_O}.
AllSquares == [Rows -> [Cols -> {EMPTY, PLAYER_X, PLAYER_O}]]

\* A Board object holding the grid sq.
BoardOf(sq) ==
    [squares |-> sq,
     marked_squares |->
         Cardinality({rc \in Rows \X Cols : sq[rc[1]][rc[2]] # EMPTY})]

InitCheckWin ==
    /\ game = Game_init
    /\ lastEvent = NoEvent
    /\ moves = 0
    /\ running = TRUE
    /\ script = ScriptStart
    /\ probe \in [squares : AllSquares, player : {PLAYER_X, PLAYER_O},
                  called : {FALSE}, result : {FALSE}]

\* board.check_win(player) on the probed board.
CallCheckWin ==
    /\ ~probe.called
    /\ probe' = [probe EXCEPT
                    !.called = TRUE,
                    !.result = check_win(BoardOf(probe.squares), probe.player)]
    /\ UNCHANGED <<game, lastEvent, moves, running, script>>

NextCheckWin == CallCheckWin

SpecCheckWin == InitCheckWin /\ [][NextCheckWin]_vars

InitEmptySquares ==
    /\ game = Game_init
    /\ lastEvent = NoEvent
    /\ moves = 0
    /\ running = TRUE
    /\ script = ScriptStart
    /\ probe \in [squares : AllSquares, called : {FALSE}, result : {<< >>}]

\* board.get_empty_squares() on the probed board.
CallGetEmptySquares ==
    /\ ~probe.called
    /\ probe' = [probe EXCEPT
                    !.called = TRUE,
                    !.result = get_empty_squares(BoardOf(probe.squares))]
    /\ UNCHANGED <<game, lastEvent, moves, running, script>>

NextEmptySquares == CallGetEmptySquares

SpecEmptySquares == InitEmptySquares /\ [][NextEmptySquares]_vars

\* ------------------------------------------ pixel to grid coordinate
InitPixel ==
    /\ game = Game_init
    /\ lastEvent = NoEvent
    /\ moves = 0
    /\ running = TRUE
    /\ script = ScriptStart
    /\ probe \in [mouseX : 0 .. (WIDTH - 1), mouseY : 0 .. (HEIGHT - 1),
                  called : {FALSE}, row : {0}, col : {0}]

\* The conversion of event.pos made by the MOUSEBUTTONDOWN branch.
ConvertPixel ==
    /\ ~probe.called
    /\ probe' = [probe EXCEPT
                    !.called = TRUE,
                    !.row = clicked_row(probe.mouseY),
                    !.col = clicked_col(probe.mouseX)]
    /\ UNCHANGED <<game, lastEvent, moves, running, script>>

NextPixel == ConvertPixel

SpecPixel == InitPixel /\ [][NextPixel]_vars

\* ------------------------------------- direct calls of Game.make_move
\* Number of direct calls of make_move explored.
MaxDirectCalls == 9

\* game.make_move(row, col) called without the tests of Main.run.
DirectMove(row, col) ==
    /\ moves < MaxDirectCalls
    /\ game' = make_move(game, row, col)
    /\ lastEvent' = [type |-> "make_move", row |-> row, col |-> col,
                     over |-> game.game_over,
                     avail |-> is_square_available(game.board, row, col),
                     printed |-> MSG_NONE]
    /\ moves' = moves + 1
    /\ UNCHANGED <<running, probe, script>>

NextDirect == \E row \in Rows, col \in Cols : DirectMove(row, col)

SpecDirect == Init /\ [][NextDirect]_vars

\* ------------------------------------------------------------- vocabulary
\* The 8 lines: 3 rows, 3 columns, 2 diagonals.
Lines ==
    {{<<r, c>> : c \in Cols} : r \in Rows}
    \cup {{<<r, c>> : r \in Rows} : c \in Cols}
    \cup {{<<0, 0>>, <<1, 1>>, <<2, 2>>}, {<<0, 2>>, <<1, 1>>, <<2, 0>>}}

Owns(sq, p) == \E l \in Lines : \A rc \in l : sq[rc[1]][rc[2]] = p

NonEmptyCells(sq) == {rc \in Rows \X Cols : sq[rc[1]][rc[2]] # EMPTY}

Full(sq) == NonEmptyCells(sq) = Rows \X Cols

Other(p) == IF p = PLAYER_X THEN PLAYER_O ELSE PLAYER_X

\* Number of cells of sq marked by p.
CountOf(sq, p) == Cardinality({rc \in Rows \X Cols : sq[rc[1]][rc[2]] = p})

\* The step is a click on an empty cell while the game is in progress.
AcceptedStep ==
    /\ lastEvent'.type = "click"
    /\ ~game.game_over
    /\ game.board.squares[lastEvent'.row][lastEvent'.col] = EMPTY

\* The event handled last was an accepted move.
AcceptedLast ==
    /\ lastEvent.type = "click"
    /\ ~lastEvent.over
    /\ lastEvent.avail

\* ------------------------------------------------------------------ claims

\* C1: in every reachable state marked_squares equals the number of cells of
\* squares that are not EMPTY, and 0 <= marked_squares <= 9.
C1_CountMatchesCells ==
    /\ game.board.marked_squares = Cardinality(NonEmptyCells(game.board.squares))
    /\ game.board.marked_squares >= 0
    /\ game.board.marked_squares <= 9

C1_Witness ==
    /\ game.board.marked_squares = 9
    /\ Full(game.board.squares)
    /\ lastEvent.type = "click"

\* C2: once game_over is true, a click changes neither the board, the fill
\* count, the current player nor game_over; only restart makes game_over
\* false again.
C2_TerminalFrozen ==
    [][game.game_over =>
          /\ (lastEvent'.type = "click" => game' = game /\ moves' = moves)
          /\ (~game'.game_over => lastEvent'.type = "restart")
          /\ (game' # game => lastEvent'.type = "restart")]_vars

C2_Witness ==
    /\ lastEvent.type = "click"
    /\ lastEvent.over
    /\ game.game_over
    /\ ~Full(game.board.squares)

\* C3: an accepted move marks the clicked cell, and only it, for the current
\* player; then the game is over as a win if the mover owns a line, over as a
\* draw if not and the board is full, and still in progress otherwise.
C3_MoveOutcome ==
    [][AcceptedStep =>
          LET r == lastEvent'.row
              c == lastEvent'.col
              p == game.current_player
              sq == game'.board.squares
          IN  /\ sq[r][c] = p
              /\ \A rc \in Rows \X Cols :
                    rc # <<r, c>> =>
                        sq[rc[1]][rc[2]] = game.board.squares[rc[1]][rc[2]]
              /\ IF Owns(sq, p)
                 THEN game'.game_over /\ lastEvent'.printed # MSG_DRAW
                 ELSE IF Full(sq)
                 THEN game'.game_over /\ lastEvent'.printed = MSG_DRAW
                 ELSE ~game'.game_over /\ lastEvent'.printed # MSG_DRAW]_vars

C3_Witness ==
    /\ AcceptedLast
    /\ game.game_over
    /\ Owns(game.board.squares, game.board.squares[lastEvent.row][lastEvent.col])
    /\ moves = 5

\* C4 (as stated): after an accepted move that wins or fills the board, the
\* player who made the move is still the current player.
C4_MoverKeptWhenOver ==
    (AcceptedLast /\ game.game_over) =>
        game.current_player = game.board.squares[lastEvent.row][lastEvent.col]

\* C4 (amended): every accepted move passes the turn to the other player, the
\* winning and the drawing move included: after it the current player is the
\* opponent of the player who made the move.
C4_TurnAlwaysPasses ==
    [][AcceptedStep =>
          /\ game'.current_player = Other(game.current_player)
          /\ game'.board.squares[lastEvent'.row][lastEvent'.col]
                = game.current_player]_vars

C4_Witness ==
    /\ AcceptedLast
    /\ game.game_over
    /\ Owns(game.board.squares, PLAYER_X)
    /\ game.current_player = PLAYER_O

\* C5: current_player is always PLAYER_X or PLAYER_O, and while the game is
\* in progress after N accepted moves it is X if N is even and O if N is odd.
C5_StrictAlternation ==
    /\ game.current_player \in {PLAYER_X, PLAYER_O}
    /\ ~game.game_over =>
          game.current_player = (IF moves % 2 = 0 THEN PLAYER_X ELSE PLAYER_O)

C5_Witness ==
    /\ moves = 3
    /\ ~game.game_over
    /\ game.current_player = PLAYER_O

\* C6: right after restart(), from any state, all nine cells are EMPTY, the
\* fill count is 0 (is_board_empty), the current player is X and game_over is
\* false.
C6_RestartResets ==
    lastEvent.type = "restart" =>
        /\ \A r \in Rows, c \in Cols : game.board.squares[r][c] = EMPTY
        /\ game.board.marked_squares = 0
        /\ is_board_empty(game.board)
        /\ game.current_player = PLAYER_X
        /\ ~game.game_over

C6_Witness ==
    /\ lastEvent.type = "restart"
    /\ lastEvent.over
    /\ is_board_empty(game.board)

\* C7: the draw message is printed only on a full board on which neither
\* player owns a line; a game over without an owned line has a full board; a
\* ninth move that completes a line is not reported as a draw.
C7_DrawOnlyFullNoLine ==
    /\ lastEvent.printed = MSG_DRAW =>
          /\ Full(game.board.squares)
          /\ ~Owns(game.board.squares, PLAYER_X)
          /\ ~Owns(game.board.squares, PLAYER_O)
    /\ (/\ game.game_over
        /\ ~Owns(game.board.squares, PLAYER_X)
        /\ ~Owns(game.board.squares, PLAYER_O)) => Full(game.board.squares)
    /\ (/\ AcceptedLast
        /\ moves = 9
        /\ Owns(game.board.squares,
                game.board.squares[lastEvent.row][lastEvent.col]))
          => game.game_over /\ lastEvent.printed # MSG_DRAW

C7_Witness ==
    /\ AcceptedLast
    /\ moves = 9
    /\ Owns(game.board.squares, PLAYER_X)
    /\ game.game_over

\* C8: for every board and player, check_win(player) is true exactly when the
\* player occupies all three cells of one of the 8 lines.
C8_CheckWinIffLine ==
    probe.called => (probe.result <=> Owns(probe.squares, probe.player))

C8_Witness ==
    /\ probe.called
    /\ probe.result
    /\ probe.player = PLAYER_O
    /\ probe.squares[0][2] = PLAYER_O
    /\ probe.squares[1][1] = PLAYER_O
    /\ probe.squares[2][0] = PLAYER_O
    /\ \A r \in Rows : probe.squares[r][r] = EMPTY \/ r = 1

\* C9: a click on a non-empty cell while the game is in progress changes
\* neither the cell, marked_squares, the current player nor game_over.
C9_OccupiedClickNoOp ==
    [][(/\ lastEvent'.type = "click"
        /\ ~game.game_over
        /\ game.board.squares[lastEvent'.row][lastEvent'.col] # EMPTY)
          => game' = game /\ moves' = moves]_vars

C9_Witness ==
    /\ lastEvent.type = "click"
    /\ ~lastEvent.over
    /\ ~lastEvent.avail
    /\ game.board.squares[lastEvent.row][lastEvent.col] # EMPTY
    /\ ~game.game_over

\* C10: the fill count equals the number of accepted moves since the game was
\* created or last restarted, and is 0 right after restart().
C10_CountEqualsMoves ==
    /\ game.board.marked_squares = moves
    /\ lastEvent.type = "restart" => game.board.marked_squares = 0

C10_Witness ==
    /\ moves = 4
    /\ game.board.marked_squares = 4
    /\ AcceptedLast

\* C11: from a new game the clicks (0,0), (1,1), (0,1), (2,2), (0,2) are each
\* accepted, for X, O, X, O, X in turn; the game is not over after any of the
\* first four, and after the fifth check_win(X) is true and the game is over
\* as a win (no draw is reported).
C11_TopRowScenario ==
    script.top_row >= 1 =>
        LET k == script.top_row
            rc == SCRIPT_TOP_ROW[k]
        IN  /\ lastEvent.type = "click" => AcceptedLast
            /\ moves = k
            /\ game.board.marked_squares = k
            /\ \A i \in 1 .. k :
                  game.board.squares[SCRIPT_TOP_ROW[i][1]][SCRIPT_TOP_ROW[i][2]]
                     = (IF i % 2 = 1 THEN PLAYER_X ELSE PLAYER_O)
            /\ game.board.squares[rc[1]][rc[2]]
                  = (IF k % 2 = 1 THEN PLAYER_X ELSE PLAYER_O)
            /\ k < 5 => ~game.game_over
            /\ k = 5 => /\ game.game_over
                        /\ check_win(game.board, PLAYER_X)
                        /\ \A c \in Cols : game.board.squares[0][c] = PLAYER_X
                        /\ ~check_win(game.board, PLAYER_O)
                        /\ lastEvent.printed # MSG_DRAW

C11_Witness ==
    /\ script.top_row = 5
    /\ AcceptedLast
    /\ game.game_over
    /\ check_win(game.board, PLAYER_X)

\* C12 (as stated): the clicks X(0,0), O(0,1), X(0,2), O(1,0), X(1,1), O(2,1),
\* X(2,0), O(2,2), X(1,2) are all accepted, neither player ever completes a
\* line, and after the ninth the game is over as a draw.
C12_FixtureIsDraw ==
    script.fixture >= 1 =>
        /\ moves = script.fixture
        /\ ~Owns(game.board.squares, PLAYER_X)
        /\ ~Owns(game.board.squares, PLAYER_O)
        /\ script.fixture = 9 => game.game_over /\ Full(game.board.squares)

\* C12 (amended): of these nine clicks the first seven are accepted; the
\* seventh, X at (2,0), completes the diagonal (0,2), (1,1), (2,0) and ends
\* the game as a win for X; the last two clicks are ignored, cells (2,2) and
\* (1,2) stay EMPTY and no draw is ever reported.
C12_FixtureIsWinForX ==
    script.fixture >= 1 =>
        LET k == script.fixture
            sq == game.board.squares
        IN  /\ lastEvent.printed # MSG_DRAW
            /\ ~Owns(sq, PLAYER_O)
            /\ k <= 6 => /\ moves = k
                         /\ lastEvent.type = "click" => AcceptedLast
                         /\ ~game.game_over
                         /\ ~Owns(sq, PLAYER_X)
            /\ k = 7 => /\ moves = 7
                        /\ lastEvent.type = "click" => AcceptedLast
            /\ k >= 7 => /\ moves = 7
                         /\ game.board.marked_squares = 7
                         /\ game.game_over
                         /\ Owns(sq, PLAYER_X)
                         /\ sq[0][2] = PLAYER_X
                         /\ sq[1][1] = PLAYER_X
                         /\ sq[2][0] = PLAYER_X
                         /\ sq[2][2] = EMPTY
                         /\ sq[1][2] = EMPTY
                         /\ ~Full(sq)
            /\ (k >= 8 /\ lastEvent.type = "click") => lastEvent.over

C12_Witness ==
    /\ script.fixture = 9
    /\ lastEvent.type = "click"
    /\ lastEvent.over
    /\ game.game_over
    /\ moves = 7

\* C13: a cell marked X or O keeps that value in every later state until the
\* next restart, and the board changes only by a click that marks a cell that
\* was EMPTY.
C13_CellsWriteOnce ==
    [][/\ lastEvent'.type # "restart" =>
             \A rc \in Rows \X Cols :
                 game.board.squares[rc[1]][rc[2]] # EMPTY =>
                     game'.board.squares[rc[1]][rc[2]]
                         = game.board.squares[rc[1]][rc[2]]
       /\ (game'.board # game.board /\ lastEvent'.type # "restart") =>
             /\ lastEvent'.type = "click"
             /\ game.board.squares[lastEvent'.row][lastEvent'.col] = EMPTY
             /\ game'.board.squares[lastEvent'.row][lastEvent'.col] # EMPTY]_vars

C13_Witness ==
    /\ lastEvent.type = "click"
    /\ ~lastEvent.over
    /\ ~lastEvent.avail
    /\ game.current_player = PLAYER_X
    /\ game.board.squares[lastEvent.row][lastEvent.col] = PLAYER_O

\* C14: make_move called directly on an occupied cell overwrites the cell with
\* the current player and still increments marked_squares, so the count
\* exceeds the number of non-EMPTY cells (is_board_full can then be true while
\* a cell is EMPTY).
C14_NoRevalidation ==
    [][(/\ lastEvent'.type = "make_move"
        /\ game.board.squares[lastEvent'.row][lastEvent'.col] # EMPTY) =>
          /\ game'.board.squares[lastEvent'.row][lastEvent'.col]
                = game.current_player
          /\ game'.board.marked_squares = game.board.marked_squares + 1
          /\ NonEmptyCells(game'.board.squares)
                = NonEmptyCells(game.board.squares)
          /\ game'.board.marked_squares
                > Cardinality(NonEmptyCells(game'.board.squares))]_vars

C14_Witness ==
    /\ lastEvent.type = "make_move"
    /\ ~lastEvent.avail
    /\ is_board_full(game.board)
    /\ \E rc \in Rows \X Cols : game.board.squares[rc[1]][rc[2]] = EMPTY

\* C15: for every board get_empty_squares() returns exactly the (row, col)
\* pairs whose cell is EMPTY, each once, in row-major order; its length is 9
\* minus the number of marked cells.
C15_EmptySquaresRowMajor ==
    probe.called =>
        LET res == probe.result
            sq == probe.squares
        IN  /\ {res[i] : i \in 1 .. Len(res)}
                  = {rc \in Rows \X Cols : sq[rc[1]][rc[2]] = EMPTY}
            /\ \A i, j \in 1 .. Len(res) :
                  i < j => \/ res[i][1] < res[j][1]
                           \/ res[i][1] = res[j][1] /\ res[i][2] < res[j][2]
            /\ Len(res) = 9 - Cardinality(NonEmptyCells(sq))

C15_Witness ==
    /\ probe.called
    /\ probe.result = << <<0, 2>>, <<1, 0>>, <<2, 1>> >>

\* C16: a click at pixel (x, y) of the 600x600 window goes to row floor(y/200)
\* and column floor(x/200), both in {0, 1, 2}: the row comes from y, the
\* column from x, and the pixel lies in the square of exactly that cell.
C16_PixelToCell ==
    probe.called =>
        /\ probe.row \in {0, 1, 2}
        /\ probe.col \in {0, 1, 2}
        /\ 200 * probe.row <= probe.mouseY
        /\ probe.mouseY < 200 * (probe.row + 1)
        /\ 200 * probe.col <= probe.mouseX
        /\ probe.mouseX < 200 * (probe.col + 1)
        /\ \A r \in Rows, c \in Cols :
              (/\ 200 * r <= probe.mouseY /\ probe.mouseY < 200 * (r + 1)
               /\ 200 * c <= probe.mouseX /\ probe.mouseX < 200 * (c + 1))
                 => (r = probe.row /\ c = probe.col)

C16_Witness ==
    /\ probe.called
    /\ probe.mouseX = 199
    /\ probe.mouseY = 400
    /\ probe.row = 2
    /\ probe.col = 0

\* C17: in every state between two events game_over is true if and only if
\* some player owns a complete line or the board is full.
C17_OverIffLineOrFull ==
    game.game_over <=>
        \/ Owns(game.board.squares, PLAYER_X)
        \/ Owns(game.board.squares, PLAYER_O)
        \/ Full(game.board.squares)

C17_Witness ==
    /\ game.game_over
    /\ Owns(game.board.squares, PLAYER_O)
    /\ ~Full(game.board.squares)
    /\ moves = 6

\* C18: in no reachable state do both players own a complete line.
C18_NoDoubleWin ==
    ~(Owns(game.board.squares, PLAYER_X) /\ Owns(game.board.squares, PLAYER_O))

C18_Witness ==
    /\ lastEvent.type = "click"
    /\ lastEvent.over
    /\ Owns(game.board.squares, PLAYER_X)
    /\ ~Owns(game.board.squares, PLAYER_O)
    /\ game.board.squares[lastEvent.row][lastEvent.col] = EMPTY
    /\ CountOf(game.board.squares, PLAYER_O) = 2

\* C19: the number of X marks equals the number of O marks or exceeds it by
\* exactly one; while the game is in progress the current player is X exactly
\* when the counts are equal and O exactly when X has one more.
C19_MarkBalance ==
    LET nx == CountOf(game.board.squares, PLAYER_X)
        no == CountOf(game.board.squares, PLAYER_O)
    IN  /\ nx = no \/ nx = no + 1
        /\ ~game.game_over =>
              /\ game.current_player = PLAYER_X <=> nx = no
              /\ game.current_player = PLAYER_O <=> nx = no + 1

C19_Witness ==
    /\ ~game.game_over
    /\ game.current_player = PLAYER_O
    /\ CountOf(game.board.squares, PLAYER_X) = 3
    /\ CountOf(game.board.squares, PLAYER_O) = 2

\* C20: without a restart at most 9 moves are ever accepted; if clicks on
\* empty cells keep being made the game eventually reaches game_over; and a
\* game over by a completed line has at least five accepted moves.
C20_GameTerminates ==
    /\ [](moves <= 9)
    /\ <>(game.game_over)
    /\ []((/\ game.game_over
           /\ \/ Owns(game.board.squares, PLAYER_X)
              \/ Owns(game.board.squares, PLAYER_O)) => moves >= 5)
    /\ [](moves < 5 => ~game.game_over)

C20_Witness ==
    /\ game.game_over
    /\ moves = 9
    /\ lastEvent.printed = MSG_DRAW
    /\ ~Owns(game.board.squares, PLAYER_X)

====
